---- MODULE Spec2Model ----
(***************************************************************************)
(* Hierarchical transform propagation of AnvilKit (anvilkit-ecs /          *)
(* anvilkit-core): Transform, GlobalTransform, Parent, Children, the two   *)
(* propagation systems, the TransformHierarchy relation operations and     *)
(* the App / plugin scheduling that is meant to run them.                  *)
(*                                                                         *)
(* In the World, numbers are integers: every Transform an entity holds has *)
(* integer translation and scale and a rotation that is a whole number of  *)
(* quarter turns about Z, so each Mat4 entry is an integer that f32        *)
(* represents exactly and matrix products are computed without rounding.   *)
(* The methods of anvilkit-core's Transform that round, divide or compare  *)
(* with epsilon (inverse, looking_at, from_matrix, mul_transform) are      *)
(* computed over floating-point numbers of reduced width.                  *)
(***************************************************************************)
EXTENDS Integers, Sequences, FiniteSets, TLC

\* ------------------------------------------------------------------ bounds
\* Entities the world can hold (Entity ids 1..NumEntities).
NumEntities == 3

\* ------------------------------------------------------------------ values
Entity == 1..NumEntities

\* Option<Parent>::None: the entity holds no Parent component.
NoEntity == 0

\* The longest Vec<Entity> application code hands to Children::new.
MaxChildren == 2

Vec3(x, y, z) == <<x, y, z>>

\* glam::Mat4, column-major: <<x_axis, y_axis, z_axis, w_axis>>, each a Vec4.
MAT4_IDENTITY == << <<1, 0, 0, 0>>, <<0, 1, 0, 0>>, <<0, 0, 1, 0>>, <<0, 0, 0, 1>> >>

\* Quat::from_rotation_z(k * PI/2) as the pair (cos, sin) of the angle.
QuarterTurn(k) ==
    CASE k % 4 = 0 -> <<1, 0>>
      [] k % 4 = 1 -> <<0, 1>>
      [] k % 4 = 2 -> <<-1, 0>>
      [] OTHER     -> <<0, -1>>

\* struct Transform { translation, rotation, scale }
Transform(translation, rotation, scale) ==
    [translation |-> translation, rotation |-> rotation, scale |-> scale]

\* Transform::default(): zero translation, identity rotation, unit scale.
TRANSFORM_IDENTITY == Transform(Vec3(0, 0, 0), 0, Vec3(1, 1, 1))

from_translation(t) == Transform(t, 0, Vec3(1, 1, 1))

\* Transform::compute_matrix: Mat4::from_scale_rotation_translation(scale,
\* rotation, translation), the rotation's basis vectors scaled per axis and
\* the translation in w_axis.
compute_matrix(t) ==
    LET c == QuarterTurn(t.rotation)[1]
        s == QuarterTurn(t.rotation)[2]
    IN << <<c * t.scale[1], s * t.scale[1], 0, 0>>,
          <<(0 - s) * t.scale[2], c * t.scale[2], 0, 0>>,
          <<0, 0, t.scale[3], 0>>,
          <<t.translation[1], t.translation[2], t.translation[3], 1>> >>

\* GlobalTransform::from_transform / From<Transform>: the matrix of the pose.
from_transform(t) == compute_matrix(t)

\* Mat4 * Mat4 (glam): column j of the product is a * (column j of b).
Mat4Mul(a, b) ==
    [j \in 1..4 |->
        [i \in 1..4 |->
            a[1][i] * b[j][1] + a[2][i] * b[j][2]
          + a[3][i] * b[j][3] + a[4][i] * b[j][4]]]

\* GlobalTransform::mul_transform: self.0 * other.0
mul_transform(self, other) == Mat4Mul(self, other)

\* GlobalTransform::translation(): w_axis.truncate()
translation(g) == Vec3(g[4][1], g[4][2], g[4][3])

\* ------------------------------------------------- finite-precision numbers
\* The Transform methods of anvilkit-core whose results depend on rounding,
\* reciprocals, epsilon or NaN are modelled over f32 at reduced width. A
\* number is carried as a count of quanta of 2^-FractionBits; every result is
\* rounded to MantissaBits significant bits (to nearest, ties to even), as
\* IEEE 754 rounds to 24. Whole numbers and halves of small magnitude are
\* exact, as they are in f32.
MantissaBits == 6

FractionBits == 10

RECURSIVE Pow2(_)
Pow2(n) == IF n = 0 THEN 1 ELSE 2 * Pow2(n - 1)

\* 1.0
ONE == Pow2(FractionBits)

\* 0.5
HALF == ONE \div 2

\* f32::MAX: the largest finite magnitude carried.
FloatMax == Pow2(15)

\* f32::INFINITY, f32::NEG_INFINITY, f32::NAN
Inf == FloatMax + 1

NegInf == 0 - Inf

NaN == FloatMax + 2

\* f32::EPSILON: the gap between 1.0 and the next larger number.
EPSILON == Pow2(FractionBits - (MantissaBits - 1))

\* f32::is_finite
is_finite(a) == a <= FloatMax /\ a >= 0 - FloatMax

\* The place value of the last kept bit of a magnitude of k quanta.
RECURSIVE UlpOf(_, _)
UlpOf(k, u) == IF k < Pow2(MantissaBits) * u THEN u ELSE UlpOf(k, 2 * u)

\* The nearest number to num/den quanta (num > 0, den > 0).
RoundPos(num, den) ==
    LET u == UlpOf(num \div den, 1)
        d == den * u
        q == num \div d
        r == num % d
        n == IF 2 * r > d \/ (2 * r = d /\ q % 2 = 1) THEN q + 1 ELSE q
    IN IF n * u > FloatMax THEN Inf ELSE n * u

Round(num, den) ==
    IF num = 0 THEN 0
    ELSE IF num > 0 THEN RoundPos(num, den)
    ELSE 0 - RoundPos(0 - num, den)

\* -a
FNeg(a) == IF a = NaN THEN NaN ELSE 0 - a

\* f32::abs
FAbs(a) == IF a = NaN THEN NaN ELSE IF a < 0 THEN 0 - a ELSE a

\* f32::signum: 1.0 for +0.0 and above, -1.0 below, NaN for NaN.
signum(a) == IF a = NaN THEN NaN ELSE IF a >= 0 THEN ONE ELSE 0 - ONE

\* a * b
FMul(a, b) ==
    IF a = NaN \/ b = NaN THEN NaN
    ELSE IF ~is_finite(a) \/ ~is_finite(b)
         THEN IF a = 0 \/ b = 0 THEN NaN
              ELSE IF (a > 0) = (b > 0) THEN Inf ELSE NegInf
    ELSE IF a = 0 \/ b = 0 THEN 0
    ELSE Round(a * b, ONE)

\* a + b
FAdd(a, b) ==
    IF a = NaN \/ b = NaN THEN NaN
    ELSE IF ~is_finite(a) THEN (IF is_finite(b) \/ a = b THEN a ELSE NaN)
    ELSE IF ~is_finite(b) THEN b
    ELSE Round(a + b, 1)

\* a - b
FSub(a, b) == FAdd(a, FNeg(b))

\* a / b
FDiv(a, b) ==
    IF a = NaN \/ b = NaN THEN NaN
    ELSE IF ~is_finite(a)
         THEN IF ~is_finite(b) THEN NaN ELSE IF b >= 0 THEN a ELSE 0 - a
    ELSE IF ~is_finite(b) THEN 0
    ELSE IF b = 0 THEN (IF a = 0 THEN NaN ELSE IF a > 0 THEN Inf ELSE NegInf)
    ELSE IF b > 0 THEN Round(a * ONE, b)
    ELSE Round(0 - (a * ONE), 0 - b)

\* The largest r in lo..hi with r * r <= n (lo * lo <= n < (hi + 1)^2).
RECURSIVE ISqrtIn(_, _, _)
ISqrtIn(n, lo, hi) ==
    IF lo = hi THEN lo
    ELSE LET mid == (lo + hi + 1) \div 2
         IN IF mid * mid <= n THEN ISqrtIn(n, mid, hi) ELSE ISqrtIn(n, lo, mid - 1)

ISqrt(n) == ISqrtIn(n, 0, Pow2(15))

\* f32::sqrt: the root is taken to two more bits than the quantum, with a
\* sticky bit for what is left, then rounded.
FSqrt(a) ==
    IF a = NaN \/ a < 0 THEN NaN
    ELSE IF a = Inf THEN Inf
    ELSE LET x == a * ONE * 16
             r == ISqrt(x)
         IN Round(2 * r + (IF r * r = x THEN 0 ELSE 1), 8)

\* a < b (false when either is NaN)
FLt(a, b) == a # NaN /\ b # NaN /\ a < b

\* Vec3::new with whole-number components.
Whole(x, y, z) == Vec3(x * ONE, y * ONE, z * ONE)

\* Vec3::ZERO, Vec3::ONE
VEC3_ZERO == Whole(0, 0, 0)

VEC3_ONE == Whole(1, 1, 1)

\* Vec3::is_finite
Vec3_is_finite(v) == is_finite(v[1]) /\ is_finite(v[2]) /\ is_finite(v[3])

\* Vec3 - Vec3, -Vec3, Vec3 * f32, Vec3 * Vec3 (componentwise)
Vec3_sub(a, b) == Vec3(FSub(a[1], b[1]), FSub(a[2], b[2]), FSub(a[3], b[3]))

Vec3_neg(a) == Vec3(FNeg(a[1]), FNeg(a[2]), FNeg(a[3]))

Vec3_scale(a, k) == Vec3(FMul(a[1], k), FMul(a[2], k), FMul(a[3], k))

Vec3_mul(a, b) == Vec3(FMul(a[1], b[1]), FMul(a[2], b[2]), FMul(a[3], b[3]))

\* Vec3::dot: x*x' + y*y' + z*z'
dot(a, b) == FAdd(FAdd(FMul(a[1], b[1]), FMul(a[2], b[2])), FMul(a[3], b[3]))

\* Vec3::length_squared, Vec3::length
length_squared(a) == dot(a, a)

length(a) == FSqrt(dot(a, a))

\* Vec3::normalize: self * (1.0 / self.length())
normalize(a) == Vec3_scale(a, FDiv(ONE, length(a)))

\* Vec3::cross
cross(a, b) ==
    Vec3(FSub(FMul(a[2], b[3]), FMul(b[2], a[3])),
         FSub(FMul(a[3], b[1]), FMul(b[3], a[1])),
         FSub(FMul(a[1], b[2]), FMul(b[1], a[2])))

\* A rotation (glam::Quat) is carried as the rotation matrix it stands for,
\* <<x_axis, y_axis, z_axis>>: q and -q are the same value.
QUAT_IDENTITY == << <<ONE, 0, 0>>, <<0, ONE, 0>>, <<0, 0, ONE>> >>

\* A Quat whose four components are NaN.
QUAT_NAN == << <<NaN, NaN, NaN>>, <<NaN, NaN, NaN>>, <<NaN, NaN, NaN>> >>

\* Quat::is_finite
Quat_is_finite(q) == \A i, j \in 1..3 : is_finite(q[i][j])

\* Quat::from_rotation_z(k * PI/2)
from_rotation_z(k) ==
    LET c == QuarterTurn(k)[1] * ONE
        s == QuarterTurn(k)[2] * ONE
    IN << <<c, s, 0>>, <<0 - s, c, 0>>, <<0, 0, ONE>> >>

\* Quat::from_rotation_x(k * PI/2)
from_rotation_x(k) ==
    LET c == QuarterTurn(k)[1] * ONE
        s == QuarterTurn(k)[2] * ONE
    IN << <<ONE, 0, 0>>, <<0, c, s>>, <<0, 0 - s, c>> >>

\* Quat::from_mat3 / Quat::from_rotation_axes: the quaternion of the three
\* axes. Every branch of the conversion divides by a root of a sum over the
\* diagonal, so one non-finite entry makes all four components NaN.
from_rotation_axes(x_axis, y_axis, z_axis) ==
    IF Vec3_is_finite(x_axis) /\ Vec3_is_finite(y_axis) /\ Vec3_is_finite(z_axis)
    THEN <<x_axis, y_axis, z_axis>>
    ELSE QUAT_NAN

\* Quat::inverse: the conjugate, whose matrix is the transpose.
Quat_inverse(q) == [i \in 1..3 |-> [j \in 1..3 |-> q[j][i]]]

\* Quat * Vec3: the vector rotated.
Quat_mul_vec3(q, v) ==
    [i \in 1..3 |->
        FAdd(FAdd(FMul(q[1][i], v[1]), FMul(q[2][i], v[2])), FMul(q[3][i], v[3]))]

\* Result<Transform>
Ok(value) == [ok |-> TRUE, value |-> value]

Err(message) == [ok |-> FALSE, value |-> message]

\* Transform::compute_matrix with the translation scaled like the axes.
compute_matrix_scaled_translation(t) ==
    LET axis(i) == <<FMul(t.rotation[i][1], t.scale[i]),
                     FMul(t.rotation[i][2], t.scale[i]),
                     FMul(t.rotation[i][3], t.scale[i]),
                     FMul(0, t.scale[i])>>
    IN <<axis(1), axis(2), axis(3),
         <<FMul(t.translation[1], t.scale[1]), FMul(t.translation[2], t.scale[2]),
           FMul(t.translation[3], t.scale[3]), ONE>> >>

\* Transform::compute_matrix over these numbers:
\* Mat4::from_scale_rotation_translation(scale, rotation, translation), the
\* rotation's axes (Vec4, w = 0) scaled per axis, the translation in w_axis.
compute_matrix_fp(t) ==
    LET axis(i) == <<FMul(t.rotation[i][1], t.scale[i]),
                     FMul(t.rotation[i][2], t.scale[i]),
                     FMul(t.rotation[i][3], t.scale[i]),
                     FMul(0, t.scale[i])>>
    IN <<axis(1), axis(2), axis(3),
         <<t.translation[1], t.translation[2], t.translation[3], ONE>> >>

\* Mat4 * Mat4 over these numbers: column j of the product is
\* a.x_axis * b[j].x + a.y_axis * b[j].y + a.z_axis * b[j].z + a.w_axis * b[j].w.
Mat4Mul_fp(a, b) ==
    [j \in 1..4 |->
        [i \in 1..4 |->
            FAdd(FAdd(FAdd(FMul(a[1][i], b[j][1]), FMul(a[2][i], b[j][2])),
                      FMul(a[3][i], b[j][3])),
                 FMul(a[4][i], b[j][4]))]]

\* Mat4::determinant of an affine matrix: the determinant of its 3x3 part.
determinant(m) ==
    FAdd(FSub(FMul(m[1][1], FSub(FMul(m[2][2], m[3][3]), FMul(m[3][2], m[2][3]))),
              FMul(m[2][1], FSub(FMul(m[1][2], m[3][3]), FMul(m[3][2], m[1][3])))),
         FMul(m[3][1], FSub(FMul(m[1][2], m[2][3]), FMul(m[2][2], m[1][3]))))

\* Vec4::length of a matrix column
Vec4_length(c) ==
    FSqrt(FAdd(FAdd(FAdd(FMul(c[1], c[1]), FMul(c[2], c[2])), FMul(c[3], c[3])),
               FMul(c[4], c[4])))

\* The axes divided by the scale without the division (the columns taken as
\* they are).
axes_unscaled(m, inv_scale) ==
    from_rotation_axes(Vec3(m[1][1], m[1][2], m[1][3]),
                       Vec3(m[2][1], m[2][2], m[2][3]),
                       Vec3(m[3][1], m[3][2], m[3][3]))

\* The rotation of Mat4::to_scale_rotation_translation:
\* Quat::from_rotation_axes(x_axis * inv_scale.x, y_axis * inv_scale.y,
\* z_axis * inv_scale.z)
axes_over_scale(m, inv_scale) ==
    from_rotation_axes(
        Vec3_scale(Vec3(m[1][1], m[1][2], m[1][3]), inv_scale[1]),
        Vec3_scale(Vec3(m[2][1], m[2][2], m[2][3]), inv_scale[2]),
        Vec3_scale(Vec3(m[3][1], m[3][2], m[3][3]), inv_scale[3]))

\* Transform::from_matrix: Mat4::to_scale_rotation_translation. The scale is
\* the length of each column, the first negated when the determinant is
\* negative; the rotation is what is left of the columns.
from_matrix(m) ==
    LET scale == Vec3(FMul(Vec4_length(m[1]), signum(determinant(m))),
                      Vec4_length(m[2]),
                      Vec4_length(m[3]))
        inv_scale == Vec3(FDiv(ONE, scale[1]), FDiv(ONE, scale[2]), FDiv(ONE, scale[3]))
    IN Transform(Vec3(m[4][1], m[4][2], m[4][3]), axes_over_scale(m, inv_scale), scale)

\* Transform::mul_transform: from_matrix(self.compute_matrix() *
\* other.compute_matrix())
Transform_mul_transform(self, other) ==
    from_matrix(Mat4Mul_fp(compute_matrix_fp(self), compute_matrix_fp(other)))

\* Transform::inverse with the test of scale.z left out.
inverse_xy_checked(self) ==
    IF FLt(FAbs(self.scale[1]), EPSILON) \/ FLt(FAbs(self.scale[2]), EPSILON)
    THEN Err("scale contains zero")
    ELSE Ok(Transform(VEC3_ZERO, Quat_inverse(self.rotation),
                      Vec3(FDiv(ONE, self.scale[1]), FDiv(ONE, self.scale[2]),
                           FDiv(ONE, self.scale[3]))))

\* Transform::inverse
inverse(self) ==
    IF \/ FLt(FAbs(self.scale[1]), EPSILON)
       \/ FLt(FAbs(self.scale[2]), EPSILON)
       \/ FLt(FAbs(self.scale[3]), EPSILON)
    THEN Err("scale contains zero")
    ELSE LET inv_scale == Vec3(FDiv(ONE, self.scale[1]), FDiv(ONE, self.scale[2]),
                               FDiv(ONE, self.scale[3]))
             inv_rotation == Quat_inverse(self.rotation)
             inv_translation ==
                 Vec3_neg(Quat_mul_vec3(inv_rotation, Vec3_mul(self.translation, inv_scale)))
         IN Ok(Transform(inv_translation, inv_rotation, inv_scale))

\* Transform::looking_at
looking_at(eye, target, up) ==
    LET forward == normalize(Vec3_sub(target, eye))
    IN IF ~Vec3_is_finite(forward) \/ FLt(length_squared(forward), EPSILON)
       THEN Err("target and eye are the same or invalid")
       ELSE LET right == normalize(cross(forward, up))
            IN IF ~Vec3_is_finite(right) \/ FLt(length_squared(right), EPSILON)
               THEN Err("up is parallel to forward")
               ELSE LET up2 == cross(right, forward)
                    IN IF ~Vec3_is_finite(up2)
                       THEN Err("numeric error in up")
                       ELSE LET rotation == from_rotation_axes(right, up2, Vec3_neg(forward))
                            IN IF ~Quat_is_finite(rotation)
                               THEN Err("numeric error in rotation")
                               ELSE Ok(Transform(eye, rotation, VEC3_ONE))

\* The Transform values application code writes.
TransformValues ==
    { from_translation(Vec3(1, 0, 0)),
      from_translation(Vec3(0, 1, 0)),
      from_translation(Vec3(2, 0, 0)),
      Transform(Vec3(0, 0, 1), 1, Vec3(2, 1, 1)) }


\* The Transform values of the module example.
DocTransformValues ==
    { from_translation(Vec3(10, 0, 0)), from_translation(Vec3(5, 0, 0)) }

\* The Transform value written while the relation operations are exercised.
HierarchyTransformValues == { from_translation(Vec3(1, 0, 0)) }

\* enum AnvilKitSchedule
ScheduleLabel == {"Startup", "Main", "PreUpdate", "Update", "PostUpdate", "Cleanup"}

\* An entry of the Schedules resource: absent, or a Schedule with its systems.
NoSchedule == [exists |-> FALSE, systems |-> <<>>]

\* Schedule::new(label)
NewSchedule == [exists |-> TRUE, systems |-> <<>>]

\* ------------------------------------------------------------------- state
VARIABLES
    alive,             \* entities spawned into the World
    transform,         \* Transform component of each entity
    global_transform,  \* GlobalTransform component of each entity (a Mat4)
    parent,            \* Parent component: the referenced entity, or NoEntity
    has_children,      \* entities that hold a Children component
    children,          \* Children component: Vec<Entity> in insertion order
    transform_changed, \* Changed<Transform> as sync_simple_transforms sees it
    global_changed,    \* Changed<GlobalTransform> as propagate_transforms sees it
    schedules,         \* Schedules resource: label -> systems of that schedule
    plugins,           \* plugins built into the App
    panicked,          \* the process aborted (panic or stack overflow)
    despawned,         \* entity ids the World has freed (their generation is spent)
    pure,              \* arguments and value under test of the pure functions
    last               \* the operation that produced this state (history)

vars == <<alive, transform, global_transform, parent, has_children, children,
          transform_changed, global_changed, schedules, plugins, panicked,
          despawned, pure, last>>

world_vars == <<alive, transform, global_transform, parent, has_children,
                children, transform_changed, global_changed, despawned>>

app_vars == <<schedules, plugins>>

\* op: the operation; e, p: the entities of a relation edit; changed: the
\* entities whose Transform was changed when a schedule run began; repeat:
\* the run directly followed another run.
Op(op, e, p, changed, repeat) ==
    [op |-> op, e |-> e, p |-> p, changed |-> changed, repeat |-> repeat]

\* No pure function is under test.
NoCall == <<>>

\* World::new() inside App::new(): no entities, an empty Schedules resource.
InitWorld ==
    /\ alive = {}
    /\ transform = [e \in Entity |-> TRANSFORM_IDENTITY]
    /\ global_transform = [e \in Entity |-> MAT4_IDENTITY]
    /\ parent = [e \in Entity |-> NoEntity]
    /\ has_children = {}
    /\ children = [e \in Entity |-> <<>>]
    /\ transform_changed = [e \in Entity |-> FALSE]
    /\ global_changed = [e \in Entity |-> FALSE]
    /\ schedules = [l \in ScheduleLabel |-> NoSchedule]
    /\ plugins = {}
    /\ panicked = FALSE
    /\ despawned = {}
    /\ last = Op("new", NoEntity, NoEntity, {}, FALSE)

Init == InitWorld /\ pure = NoCall

\* ------------------------------------------------------------ Children API
Range(s) == {s[i] : i \in 1..Len(s)}

\* Children::contains
contains(ch, entity) == entity \in Range(ch)

\* Children::push without the contains test.
push_unchecked(ch, entity) == Append(ch, entity)

\* Children::push: appended only when not already present.
push(ch, entity) == IF contains(ch, entity) THEN ch ELSE Append(ch, entity)

\* Removal by Vec::swap_remove: the last element takes the removed one's place.
remove_swap(ch, entity) ==
    IF ~contains(ch, entity) THEN ch
    ELSE LET i == CHOOSE k \in 1..Len(ch) : ch[k] = entity
         IN SubSeq([ch EXCEPT ![i] = ch[Len(ch)]], 1, Len(ch) - 1)

\* Children::remove: retain(|e| e != entity)
remove(ch, entity) == SelectSeq(ch, LAMBDA x : x # entity)

\* Children::empty / Children::default
empty == <<>>

\* Children::clear
clear(ch) == <<>>

\* Children::first: Option<Entity>, None as NoEntity
Children_first(ch) == IF ch = <<>> THEN NoEntity ELSE ch[1]

\* Children::last: Option<Entity>, None as NoEntity
Children_last(ch) == IF ch = <<>> THEN NoEntity ELSE ch[Len(ch)]

\* ------------------------------------------------------- propagation systems
\* The part of the World the two systems read and write, and whether the
\* recursion returned (ok) or ran away (a stack overflow).
WorldView(g, tc, gc, ok) == [g |-> g, tc |-> tc, gc |-> gc, ok |-> ok]

\* Query filter Without<Parent>
IsRoot(e) == e \in alive /\ parent[e] = NoEntity

\* sync_simple_transforms writing GlobalTransform without marking it changed
\* (a write that bypasses change detection).
sync_simple_transforms_unmarked(w) ==
    LET hit == {e \in Entity : IsRoot(e) /\ w.tc[e]}
    IN WorldView([e \in Entity |-> IF e \in hit THEN from_transform(transform[e]) ELSE w.g[e]],
                 [e \in Entity |-> FALSE],
                 w.gc,
                 w.ok)

\* sync_simple_transforms without the Without<Parent> filter: every entity
\* whose Transform is changed is written.
sync_simple_transforms_with_parents(w) ==
    LET hit == {e \in Entity : e \in alive /\ w.tc[e]}
    IN WorldView([e \in Entity |-> IF e \in hit THEN from_transform(transform[e]) ELSE w.g[e]],
                 [e \in Entity |-> FALSE],
                 [e \in Entity |-> w.gc[e] \/ e \in hit],
                 w.ok)

\* sync_simple_transforms: Query<(&Transform, &mut GlobalTransform),
\* (Changed<Transform>, Without<Parent>)>; each hit gets
\* GlobalTransform::from(*transform), which marks its GlobalTransform changed.
\* When the system returns its last_run tick advances, so no Transform change
\* made before this run is seen as changed by a later run.
sync_simple_transforms(w) ==
    LET hit == {e \in Entity : IsRoot(e) /\ w.tc[e]}
    IN WorldView([e \in Entity |-> IF e \in hit THEN from_transform(transform[e]) ELSE w.g[e]],
                 [e \in Entity |-> FALSE],
                 [e \in Entity |-> w.gc[e] \/ e \in hit],
                 w.ok)

\* transform_query: Query<(&Transform, &mut GlobalTransform, Option<&Children>),
\* With<Parent>>::get_mut(child_entity) succeeds.
InTransformQuery(e) == e \in alive /\ parent[e] # NoEntity

\* The first loop of propagate_recursive composing each child with the
\* sibling written before it (the first with parent_global).
RECURSIVE WriteChildren_chained(_, _, _)
WriteChildren_chained(parent_global, ch, g) ==
    IF ch = <<>> THEN g
    ELSE IF InTransformQuery(Head(ch))
    THEN LET new_global == mul_transform(parent_global, from_transform(transform[Head(ch)]))
         IN WriteChildren_chained(new_global, Tail(ch), [g EXCEPT ![Head(ch)] = new_global])
    ELSE WriteChildren_chained(parent_global, Tail(ch), g)

\* First loop of propagate_recursive: every child the query yields is written
\* parent_global.mul_transform(&GlobalTransform::from(*transform)).
WriteChildren(parent_global, ch, g) ==
    [e \in Entity |->
        IF contains(ch, e) /\ InTransformQuery(e)
        THEN mul_transform(parent_global, from_transform(transform[e]))
        ELSE g[e]]

\* to_recurse holding the list being walked instead of the child's own list
\* (children.clone() pushed where grandchildren.clone() belongs).
ToRecurse_parent_list(parent_global, ch) ==
    LET hit == SelectSeq(ch, LAMBDA c : InTransformQuery(c) /\ c \in has_children)
    IN [i \in 1..Len(hit) |->
           <<mul_transform(parent_global, from_transform(transform[hit[i]])), ch>>]

\* to_recurse also taking the listed entities the transform_query does not
\* yield: the grandchildren are pushed outside the `if let Ok(..)` block.
RECURSIVE ToRecurse_unchecked(_, _)
ToRecurse_unchecked(parent_global, ch) ==
    IF ch = <<>> THEN <<>>
    ELSE LET c == Head(ch)
             rest == ToRecurse_unchecked(parent_global, Tail(ch))
         IN IF c \in has_children
            THEN << <<mul_transform(parent_global, from_transform(transform[c])),
                      children[c]>> >> \o rest
            ELSE rest

\* to_recurse: (new_global, grandchildren.clone()) of every written child that
\* holds a Children component, in the order of the list.
RECURSIVE ToRecurse(_, _)
ToRecurse(parent_global, ch) ==
    IF ch = <<>> THEN <<>>
    ELSE LET c == Head(ch)
             rest == ToRecurse(parent_global, Tail(ch))
         IN IF InTransformQuery(c) /\ c \in has_children
            THEN << <<mul_transform(parent_global, from_transform(transform[c])),
                      children[c]>> >> \o rest
            ELSE rest

RECURSIVE propagate_recursive(_, _, _, _)
RECURSIVE RecurseAll(_, _, _)

\* Second loop of propagate_recursive, over to_recurse.
RecurseAll(rec, g, depth) ==
    IF rec = <<>> THEN [g |-> g, ok |-> TRUE]
    ELSE LET r == propagate_recursive(Head(rec)[1], Head(rec)[2], g, depth)
         IN IF r.ok THEN RecurseAll(Tail(rec), r.g, depth) ELSE r

\* propagate_recursive without its second loop: only the direct children of
\* a root are written.
propagate_flat(parent_global, ch, g, depth) ==
    [g |-> WriteChildren(parent_global, ch, g), ok |-> TRUE]

\* propagate_recursive. A chain of Children lists without a cycle is at most
\* NumEntities long, so a call nested deeper than that is inside a cycle and
\* the recursion never returns.
propagate_recursive(parent_global, ch, g, depth) ==
    IF depth > NumEntities THEN [g |-> g, ok |-> FALSE]
    ELSE RecurseAll(ToRecurse(parent_global, ch),
                    WriteChildren(parent_global, ch, g), depth + 1)

\* The root query without its Changed<GlobalTransform> filter and without the
\* is_changed() test on what it yields: every root holding Children is walked.
RootQuery_unfiltered(w) == {e \in Entity : IsRoot(e) /\ e \in has_children}

\* root_query of propagate_transforms: (Entity, &Children, Ref<GlobalTransform>)
\* with (Changed<GlobalTransform>, Without<Parent>).
RootQuery(w) == {e \in Entity : IsRoot(e) /\ e \in has_children /\ w.gc[e]}

\* The entities the root query can yield at all (its structural filter).
RootsWithChildren == {e \in Entity : IsRoot(e) /\ e \in has_children}

\* Every order in which a query may yield the entities of S.
Orders(S) ==
    {o \in [1..Cardinality(S) -> S] : \A i, j \in 1..Cardinality(S) : o[i] = o[j] => i = j}

RECURSIVE PropagateRoots(_, _)
PropagateRoots(order, r) ==
    IF order = <<>> \/ ~r.ok THEN r
    ELSE PropagateRoots(Tail(order),
             propagate_recursive(r.g[Head(order)], children[Head(order)], r.g, 1))

\* The subsequence of `order` made of the entities in S.
Restrict(order, S) == SelectSeq(order, LAMBDA x : x \in S)

\* propagate_transforms, the root query yielding its entities in `order`.
\* When the system returns its last_run tick advances: the writes it made and
\* every earlier GlobalTransform change are not changed for its next run.
propagate_transforms(w, order) ==
    LET r == PropagateRoots(Restrict(order, RootQuery(w)), [g |-> w.g, ok |-> w.ok])
    IN WorldView(r.g, w.tc, [e \in Entity |-> FALSE], r.ok)

\* The systems of one schedule, run in the order of the list.
RECURSIVE RunSystems(_, _, _)
RunSystems(systems, w, order) ==
    IF systems = <<>> \/ ~w.ok THEN w
    ELSE RunSystems(Tail(systems),
             IF Head(systems) = "sync_simple_transforms"
             THEN sync_simple_transforms(w)
             ELSE propagate_transforms(w, order),
             order)

\* The pair registered in the opposite order.
reversed_chain == <<"propagate_transforms", "sync_simple_transforms">>

\* TransformPlugin::build: (sync_simple_transforms, propagate_transforms).chain()
transform_systems == <<"sync_simple_transforms", "propagate_transforms">>


\* ------------------------------------------------------------ application
\* Entity ids are allocated in order; a freed index comes back with a new
\* generation, which is a different Entity: the model never hands it out again.
FreeEntity == Entity \ (alive \cup despawned)

NextEntity == CHOOSE e \in FreeEntity : \A o \in FreeEntity : e <= o

\* world.spawn((transform, GlobalTransform::default())): a root; both
\* components are added, which counts as changed.
spawn_root(t) ==
    /\ ~panicked
    /\ FreeEntity # {}
    /\ LET e == NextEntity
       IN /\ alive' = alive \cup {e}
          /\ transform' = [transform EXCEPT ![e] = t]
          /\ global_transform' = [global_transform EXCEPT ![e] = MAT4_IDENTITY]
          /\ transform_changed' = [transform_changed EXCEPT ![e] = TRUE]
          /\ global_changed' = [global_changed EXCEPT ![e] = TRUE]
          /\ last' = Op("spawn", NoEntity, NoEntity, {}, FALSE)
    /\ UNCHANGED <<parent, has_children, children, schedules, plugins, panicked, despawned, pure>>

\* world.spawn((transform, GlobalTransform::default(), Parent(p))) with the
\* child pushed into p's Children (inserted when p has none): a child linked
\* on both sides.
spawn_child(t, p) ==
    /\ ~panicked
    /\ FreeEntity # {}
    /\ p \in alive
    /\ LET e == NextEntity
       IN /\ alive' = alive \cup {e}
          /\ transform' = [transform EXCEPT ![e] = t]
          /\ global_transform' = [global_transform EXCEPT ![e] = MAT4_IDENTITY]
          /\ transform_changed' = [transform_changed EXCEPT ![e] = TRUE]
          /\ global_changed' = [global_changed EXCEPT ![e] = TRUE]
          /\ parent' = [parent EXCEPT ![e] = p]
          /\ has_children' = has_children \cup {p}
          /\ children' = [children EXCEPT ![p] = push(children[p], e)]
          /\ last' = Op("spawn", NoEntity, NoEntity, {}, FALSE)
    /\ UNCHANGED <<schedules, plugins, panicked, despawned, pure>>

\* The module example's child: world.spawn((transform,
\* GlobalTransform::default(), Parent(p))); the parent is given no Children.
spawn_with_parent(t, p) ==
    /\ ~panicked
    /\ FreeEntity # {}
    /\ p \in alive
    /\ LET e == NextEntity
       IN /\ alive' = alive \cup {e}
          /\ transform' = [transform EXCEPT ![e] = t]
          /\ global_transform' = [global_transform EXCEPT ![e] = MAT4_IDENTITY]
          /\ transform_changed' = [transform_changed EXCEPT ![e] = TRUE]
          /\ global_changed' = [global_changed EXCEPT ![e] = TRUE]
          /\ parent' = [parent EXCEPT ![e] = p]
          /\ last' = Op("spawn", NoEntity, NoEntity, {}, FALSE)
    /\ UNCHANGED <<has_children, children, schedules, plugins, panicked, despawned, pure>>

\* Application code writes an entity's Transform through a mutable borrow,
\* which marks it changed whether or not the value differs.
set_transform(e, t) ==
    /\ ~panicked
    /\ e \in alive
    /\ transform' = [transform EXCEPT ![e] = t]
    /\ transform_changed' = [transform_changed EXCEPT ![e] = TRUE]
    /\ last' = Op("set_transform", NoEntity, NoEntity, {}, FALSE)
    /\ UNCHANGED <<alive, global_transform, parent, has_children, children,
                   global_changed, schedules, plugins, panicked, despawned, pure>>

\* The World after the systems of a schedule ran, the root query of
\* propagate_transforms yielding its entities in `order`.
RunSchedule(systems, order, op) ==
    LET w == RunSystems(systems,
                 WorldView(global_transform, transform_changed, global_changed, TRUE),
                 order)
    IN /\ global_transform' = w.g
       /\ transform_changed' = w.tc
       /\ global_changed' = w.gc
       /\ panicked' = ~w.ok
       /\ last' = Op(op, NoEntity, NoEntity, {e \in alive : transform_changed[e]},
                     last.op = op)

\* A pass that also drops from every Children list the entities that are no
\* longer in the World.
propagation_pass_pruning ==
    /\ ~panicked
    /\ \E order \in Orders(RootsWithChildren) :
          RunSchedule(transform_systems, order, "pass")
    /\ children' = [e \in Entity |-> SelectSeq(children[e], LAMBDA c : c \in alive)]
    /\ UNCHANGED <<alive, transform, parent, has_children, schedules, plugins, despawned, pure>>

\* One propagation pass: the chained pair of systems run once.
propagation_pass ==
    /\ ~panicked
    /\ \E order \in Orders(RootsWithChildren) :
          RunSchedule(transform_systems, order, "pass")
    /\ UNCHANGED <<alive, transform, parent, has_children, children, schedules, plugins, despawned, pure>>

\* sync_simple_transforms run on its own, as a schedule holding only it.
run_sync_simple_transforms ==
    /\ ~panicked
    /\ RunSchedule(<<"sync_simple_transforms">>, <<>>, "sync")
    /\ UNCHANGED <<alive, transform, parent, has_children, children, schedules, plugins, despawned, pure>>

\* ------------------------------------------------------- TransformHierarchy
\* TransformHierarchy::set_parent with its commands applied:
\*   commands.entity(child).insert(Parent::new(parent));
\*   commands.entity(parent).try_insert(Children::empty());
\* insert and try_insert both replace a component the entity already holds.
set_parent(child, p) ==
    /\ ~panicked
    /\ child \in alive /\ p \in alive
    /\ parent' = [parent EXCEPT ![child] = p]
    /\ has_children' = has_children \cup {p}
    /\ children' = [children EXCEPT ![p] = <<>>]
    /\ last' = Op("set_parent", child, p, {}, FALSE)
    /\ UNCHANGED <<alive, transform, global_transform, transform_changed,
                   global_changed, schedules, plugins, panicked, despawned, pure>>

\* TransformHierarchy::remove_parent with its command applied:
\*   commands.entity(child).remove::<Parent>();
remove_parent(child) ==
    /\ ~panicked
    /\ child \in alive
    /\ parent' = [parent EXCEPT ![child] = NoEntity]
    /\ last' = Op("remove_parent", child, parent[child], {}, FALSE)
    /\ UNCHANGED <<alive, transform, global_transform, has_children, children,
                   transform_changed, global_changed, schedules, plugins, panicked, despawned, pure>>

\* The Vec<Entity> values handed to Children::new: entities of the World, in
\* any order, repeated or not.
ChildrenValues == UNION {[1..n -> alive] : n \in 0..MaxChildren}

\* world.entity_mut(e).insert(Children::new(list)): application code authors
\* the list itself; an existing Children component is replaced.
insert_Children(e, list) ==
    /\ ~panicked
    /\ e \in alive
    /\ has_children' = has_children \cup {e}
    /\ children' = [children EXCEPT ![e] = list]
    /\ last' = Op("insert_children", NoEntity, NoEntity, {}, FALSE)
    /\ UNCHANGED <<alive, transform, global_transform, parent, transform_changed,
                   global_changed, schedules, plugins, panicked, despawned, pure>>

\* world.get_mut::<Children>(p).unwrap().push(c): application code adds an
\* entity to a Children component the parent already holds. Lists are kept to
\* MaxChildren entries.
push_Children(p, c) ==
    /\ ~panicked
    /\ p \in has_children
    /\ c \in alive
    /\ Len(children[p]) < MaxChildren
    /\ children' = [children EXCEPT ![p] = push(children[p], c)]
    /\ last' = Op("push_children", c, p, {}, FALSE)
    /\ UNCHANGED <<alive, transform, global_transform, parent, has_children,
                   transform_changed, global_changed, schedules, plugins, panicked,
                   despawned, pure>>

\* UtilitySystems::cleanup_system with its command applied on one entity:
\*   commands.entity(entity).despawn();
\* the entity and its own components leave the World; no component of any
\* other entity is touched.
despawn(e) ==
    /\ ~panicked
    /\ e \in alive
    /\ alive' = alive \ {e}
    /\ despawned' = despawned \cup {e}
    /\ transform' = [transform EXCEPT ![e] = TRANSFORM_IDENTITY]
    /\ global_transform' = [global_transform EXCEPT ![e] = MAT4_IDENTITY]
    /\ parent' = [parent EXCEPT ![e] = NoEntity]
    /\ has_children' = has_children \ {e}
    /\ children' = [children EXCEPT ![e] = <<>>]
    /\ transform_changed' = [transform_changed EXCEPT ![e] = FALSE]
    /\ global_changed' = [global_changed EXCEPT ![e] = FALSE]
    /\ last' = Op("despawn", e, NoEntity, {}, FALSE)
    /\ UNCHANGED <<schedules, plugins, panicked, pure>>

\* ------------------------------------------------- a Children value in use
\* The Children value under test with the history of the calls made on it:
\* list is the value; from_vec, that it came from Children::new (it was not
\* built by push, remove and clear alone); first_pushed, the entities in the
\* order of their first push; inserted, the entities now present in the order
\* of the pushes that inserted them.
ChildrenUnderTest(list, from_vec, first_pushed, inserted) ==
    [list |-> list, from_vec |-> from_vec,
     first_pushed |-> first_pushed, inserted |-> inserted]

\* let mut children = Children::empty();
InitChildren ==
    /\ InitWorld
    /\ pure = ChildrenUnderTest(empty, FALSE, <<>>, <<>>)

\* children = Children::new(v)
Children_new(v) ==
    /\ pure' = ChildrenUnderTest(v, TRUE, <<>>, <<>>)
    /\ last' = Op("Children::new", NoEntity, NoEntity, {}, FALSE)
    /\ UNCHANGED <<world_vars, app_vars, panicked>>

\* children.push(e)
Children_push(e) ==
    /\ pure' = ChildrenUnderTest(
                   push(pure.list, e), pure.from_vec,
                   IF pure.from_vec \/ e \in Range(pure.first_pushed)
                   THEN pure.first_pushed ELSE Append(pure.first_pushed, e),
                   IF pure.from_vec \/ e \in Range(pure.inserted)
                   THEN pure.inserted ELSE Append(pure.inserted, e))
    /\ last' = Op("Children::push", e, NoEntity, {},
                  last.op = "Children::push" /\ last.e = e)
    /\ UNCHANGED <<world_vars, app_vars, panicked>>

\* children.remove(e)
Children_remove(e) ==
    /\ pure' = ChildrenUnderTest(
                   remove(pure.list, e), pure.from_vec, pure.first_pushed,
                   SelectSeq(pure.inserted, LAMBDA x : x # e))
    /\ last' = Op("Children::remove", e, NoEntity, {}, FALSE)
    /\ UNCHANGED <<world_vars, app_vars, panicked>>

\* children.clear()
Children_clear ==
    /\ pure' = ChildrenUnderTest(clear(pure.list), pure.from_vec, pure.first_pushed, <<>>)
    /\ last' = Op("Children::clear", NoEntity, NoEntity, {}, FALSE)
    /\ UNCHANGED <<world_vars, app_vars, panicked>>

\* ------------------------------------------------ Transform methods in use
\* The scale components application code passes: zero, magnitudes below and
\* at f32::EPSILON, a half, one, two and minus one.
ScaleComponents ==
    {0, EPSILON \div 2, 0 - (EPSILON \div 2), EPSILON, HALF, ONE, 2 * ONE, 0 - ONE}

ScaleValues == {Vec3(x, y, z) : x, y, z \in ScaleComponents}

\* Quat::IDENTITY, a quarter turn about Z, about X, and a half turn about Z.
RotationValues ==
    {QUAT_IDENTITY, from_rotation_z(1), from_rotation_x(1), from_rotation_z(2)}

TranslationValues == {Whole(0, 0, 0), Whole(1, 0, 0), Whole(1, 2, 0)}

\* The Transforms the methods are called on.
MathTransformValues ==
    {Transform(tr, r, s) : tr \in TranslationValues, r \in RotationValues, s \in ScaleValues}

\* A call of a Transform method: its arguments, what it returned, and the
\* value computed from the result afterwards.
MethodCall(op, self, result, product) ==
    [op |-> op, self |-> self, result |-> result, product |-> product]

\* The Transform inverse() is about to be called on.
InitInverse ==
    /\ InitWorld
    /\ pure \in {MethodCall("args", t, NoCall, NoCall) : t \in MathTransformValues}

\* let inv = t.inverse();  (&self: the receiver is only read)
Transform_inverse ==
    /\ pure.op = "args"
    /\ pure' = MethodCall("inverse", pure.self, inverse(pure.self), NoCall)
    /\ last' = Op("Transform::inverse", NoEntity, NoEntity, {}, FALSE)
    /\ UNCHANGED <<world_vars, app_vars, panicked>>

\* Transforms with every scale component well away from zero: a half, one,
\* two, minus one and minus two.
InvertibleScaleComponents == {HALF, ONE, 2 * ONE, 0 - ONE, 0 - (2 * ONE)}

InvertibleTransformValues ==
    {Transform(tr, r, Vec3(x, y, z)) :
        tr \in TranslationValues, r \in RotationValues, x, y, z \in InvertibleScaleComponents}

\* The Transform that is about to be multiplied by its inverse.
InitRoundTrip ==
    /\ InitWorld
    /\ pure \in {MethodCall("args", t, NoCall, NoCall) : t \in InvertibleTransformValues}

\* t.mul_transform(&t.inverse().unwrap())
mul_by_inverse ==
    /\ pure.op = "inverse"
    /\ pure.result.ok
    /\ pure' = MethodCall("mul_inverse", pure.self, pure.result,
                          Transform_mul_transform(pure.self, pure.result.value))
    /\ last' = Op("Transform::mul_transform", NoEntity, NoEntity, {}, FALSE)
    /\ UNCHANGED <<world_vars, app_vars, panicked>>

\* The points and directions looking_at is called with: whole-number
\* coordinates, the up direction either Vec3::Y or a multiple of the
\* direction from eye to target.
EyeValues == {Whole(0, 0, 0), Whole(1, 0, 0)}

TargetCoordinates == {0 - 5, 0 - 4, 0 - 3, 0 - 1, 0, 1, 3, 5}

TargetValues == {Whole(x, y, z) : x, y, z \in TargetCoordinates}

\* k * (target - eye), exactly.
Multiple(k, eye, target) ==
    Vec3(k * (target[1] - eye[1]), k * (target[2] - eye[2]), k * (target[3] - eye[3]))

UpValues(eye, target) ==
    {Whole(0, 1, 0), Multiple(1, eye, target), Multiple(3, eye, target),
     Multiple(0 - 1, eye, target)}

LookingAtArgs(eye, target, up) == [eye |-> eye, target |-> target, up |-> up]

\* The arguments looking_at is about to be called with.
InitLookingAt ==
    /\ InitWorld
    /\ pure \in UNION {{MethodCall("args", LookingAtArgs(eye, target, up), NoCall, NoCall) :
                            up \in UpValues(eye, target)} :
                        eye \in EyeValues, target \in TargetValues}

\* Transform::looking_at(eye, target, up)
Transform_looking_at ==
    /\ pure.op = "args"
    /\ pure' = MethodCall("looking_at", pure.self,
                          looking_at(pure.self.eye, pure.self.target, pure.self.up), NoCall)
    /\ last' = Op("Transform::looking_at", NoEntity, NoEntity, {}, FALSE)
    /\ UNCHANGED <<world_vars, app_vars, panicked>>

\* The Transforms converted to a matrix and back: scale components zero,
\* positive and negative, uniform and not.
MatrixScaleComponents == InvertibleScaleComponents \cup {0}

MatrixTransformValues ==
    {Transform(tr, r, Vec3(x, y, z)) :
        tr \in TranslationValues, r \in RotationValues, x, y, z \in MatrixScaleComponents}

InitMatrix ==
    /\ InitWorld
    /\ pure \in {MethodCall("args", t, NoCall, NoCall) : t \in MatrixTransformValues}

\* let matrix = transform.compute_matrix();
Transform_compute_matrix ==
    /\ pure.op = "args"
    /\ pure' = MethodCall("compute_matrix", pure.self, compute_matrix_fp(pure.self), NoCall)
    /\ last' = Op("Transform::compute_matrix", NoEntity, NoEntity, {}, FALSE)
    /\ UNCHANGED <<world_vars, app_vars, panicked>>

\* let reconstructed = Transform::from_matrix(matrix);
Transform_from_matrix ==
    /\ pure.op = "compute_matrix"
    /\ pure' = MethodCall("from_matrix", pure.self, pure.result, from_matrix(pure.result))
    /\ last' = Op("Transform::from_matrix", NoEntity, NoEntity, {}, FALSE)
    /\ UNCHANGED <<world_vars, app_vars, panicked>>

\* The Transforms multiplied three at a time: uniform scales (minus one and a
\* half), a non-uniform scale and a scale with a zero component.
AssocScaleValues ==
    {Whole(0 - 1, 0 - 1, 0 - 1), Vec3(HALF, HALF, HALF), Vec3(HALF, ONE, ONE),
     Vec3(0, ONE, ONE)}

AssocRotationValues == {QUAT_IDENTITY, from_rotation_z(1), from_rotation_x(1)}

AssocTranslationValues == {Whole(0, 0, 0), Whole(1, 2, 0)}

AssocTransformValues ==
    {Transform(tr, r, s) :
        tr \in AssocTranslationValues, r \in AssocRotationValues, s \in AssocScaleValues}

Triple(a, b, c) == [a |-> a, b |-> b, c |-> c]

InitAssoc ==
    /\ InitWorld
    /\ pure \in {MethodCall("args", Triple(a, b, c), NoCall, NoCall) :
                    a, b, c \in AssocTransformValues}

\* (a.mul_transform(&b)).mul_transform(&c)
mul_left_first ==
    /\ pure.op = "args"
    /\ pure' = MethodCall("left", pure.self,
                          Transform_mul_transform(
                              Transform_mul_transform(pure.self.a, pure.self.b), pure.self.c),
                          NoCall)
    /\ last' = Op("Transform::mul_transform", NoEntity, NoEntity, {}, FALSE)
    /\ UNCHANGED <<world_vars, app_vars, panicked>>

\* a.mul_transform(&b.mul_transform(&c))
mul_right_first ==
    /\ pure.op = "left"
    /\ pure' = MethodCall("right", pure.self, pure.result,
                          Transform_mul_transform(
                              pure.self.a, Transform_mul_transform(pure.self.b, pure.self.c)))
    /\ last' = Op("Transform::mul_transform", NoEntity, NoEntity, {}, TRUE)
    /\ UNCHANGED <<world_vars, app_vars, panicked>>

\* --------------------------------------------------- hierarchy queries in use
\* The loop of get_ancestors, `ancestors` collected so far:
\*   while let Some(parent) = world.get::<Parent>(current) {
\*       ancestors.push(parent.get()); current = parent.get(); }
\* world.get is None for an entity that is not in the World. A Parent chain
\* without a cycle is at most NumEntities long: a loop that runs longer is
\* inside a cycle and never ends (ok is FALSE).
RECURSIVE get_ancestors_from(_, _, _)
get_ancestors_from(current, ancestors, steps) ==
    IF current \notin alive \/ parent[current] = NoEntity
    THEN [list |-> ancestors, ok |-> TRUE]
    ELSE IF steps > NumEntities THEN [list |-> ancestors, ok |-> FALSE]
    ELSE get_ancestors_from(parent[current], Append(ancestors, parent[current]), steps + 1)

\* get_ancestors with the starting entity pushed first.
get_ancestors_with_self(entity) == get_ancestors_from(entity, <<entity>>, 1)

\* TransformHierarchy::get_ancestors
get_ancestors(entity) == get_ancestors_from(entity, <<>>, 1)

\* let ancestors = TransformHierarchy::get_ancestors(&world, e);  (&World:
\* the World is only read). A loop that never ends grows the Vec until the
\* process aborts.
call_get_ancestors(e) ==
    /\ ~panicked
    /\ e \in alive
    /\ pure = NoCall
    /\ pure' = MethodCall("get_ancestors", e, get_ancestors(e), NoCall)
    /\ panicked' = ~get_ancestors(e).ok
    /\ last' = Op("get_ancestors", e, NoEntity, {}, FALSE)
    /\ UNCHANGED <<world_vars, app_vars>>

\* ------------------------------------------------------ the writes of a pass
\* One write of a GlobalTransform: the entity written and the entity whose
\* GlobalTransform was the parent_global it was composed with (NoEntity for a
\* write by sync_simple_transforms).
Write(e, from) == [e |-> e, from |-> from]

\* The children a call of propagate_recursive recurses into: those the
\* transform_query yields that hold a Children component, in list order.
Recursing(ch) == SelectSeq(ch, LAMBDA c : InTransformQuery(c) /\ c \in has_children)

\* The writes of propagate_recursive(&global of src, ch, ..) in the order they
\* are made: the first loop writes every child the transform_query yields,
\* then the second loop recurses into each entry of to_recurse. The depth is
\* cut as in propagate_recursive.
RECURSIVE WritesOfRecursive(_, _, _)
RECURSIVE WritesOfAll(_, _)
WritesOfAll(rec, depth) ==
    IF rec = <<>> THEN <<>>
    ELSE WritesOfRecursive(Head(rec), children[Head(rec)], depth)
            \o WritesOfAll(Tail(rec), depth)

WritesOfRecursive(src, ch, depth) ==
    IF depth > NumEntities THEN <<>>
    ELSE LET written == SelectSeq(ch, LAMBDA c : InTransformQuery(c))
         IN [i \in 1..Len(written) |-> Write(written[i], src)]
               \o WritesOfAll(Recursing(ch), depth + 1)

RECURSIVE WritesOfRoots(_)
WritesOfRoots(order) ==
    IF order = <<>> THEN <<>>
    ELSE WritesOfRecursive(Head(order), children[Head(order)], 1)
            \o WritesOfRoots(Tail(order))

\* The writes of one propagation pass, in order: sync_simple_transforms
\* (its query yielding by entity id), then propagate_transforms with its
\* root query yielding in `order`.
WritesOfPass(order) ==
    LET w == sync_simple_transforms(
                 WorldView(global_transform, transform_changed, global_changed, TRUE))
        hit == {e \in Entity : IsRoot(e) /\ transform_changed[e]}
        synced == SelectSeq([i \in 1..NumEntities |-> i], LAMBDA e : e \in hit)
    IN [i \in 1..Len(synced) |-> Write(synced[i], NoEntity)]
          \o WritesOfRoots(Restrict(order, RootQuery(w)))

\* l and m list the same entities the same number of times.
Permutation(l, m) ==
    /\ Len(l) = Len(m)
    /\ \A x \in Range(l) \cup Range(m) :
          Cardinality({i \in 1..Len(l) : l[i] = x}) = Cardinality({i \in 1..Len(m) : m[i] = x})

\* Application code replaces e's Children by the same entities in another
\* order: world.entity_mut(e).insert(Children::new(list)). Writing Children
\* touches no Transform and no GlobalTransform.
reorder_Children(e, list) ==
    /\ ~panicked
    /\ e \in has_children
    /\ Permutation(list, children[e])
    /\ list # children[e]
    /\ children' = [children EXCEPT ![e] = list]
    /\ last' = Op("reorder_children", e, NoEntity, {}, FALSE)
    /\ UNCHANGED <<alive, transform, global_transform, parent, has_children,
                   transform_changed, global_changed, schedules, plugins, panicked,
                   despawned, pure>>

\* What one propagation pass run now would leave, the root query yielding in
\* `order`.
PassOutcome(order) ==
    RunSystems(transform_systems,
               WorldView(global_transform, transform_changed, global_changed, TRUE), order)

\* --------------------------------------------------------------------- App
\* App::add_systems: schedules.entry(schedule) gets or creates the schedule
\* and the systems are added to it.
add_systems(sch, label, systems) ==
    [sch EXCEPT ![label] = [exists |-> TRUE, systems |-> sch[label].systems \o systems]]

\* TransformPlugin::build: the chained systems go to PostUpdate.
TransformPlugin_build(sch) == add_systems(sch, "PostUpdate", transform_systems)

\* AnvilKitEcsPlugin::setup_schedules: add_schedule replaces each schedule
\* by a new empty one.
setup_schedules(sch) == [l \in ScheduleLabel |-> NewSchedule]

\* app.add_plugins(TransformPlugin). Plugin::is_unique is true: the plugin is
\* added once.
add_TransformPlugin ==
    /\ ~panicked
    /\ "TransformPlugin" \notin plugins
    /\ schedules' = TransformPlugin_build(schedules)
    /\ plugins' = plugins \cup {"TransformPlugin"}
    /\ last' = Op("add_plugins", NoEntity, NoEntity, {}, FALSE)
    /\ UNCHANGED <<world_vars, panicked, pure>>

\* app.add_plugins(AnvilKitEcsPlugin): setup_schedules, then TransformPlugin.
add_AnvilKitEcsPlugin ==
    /\ ~panicked
    /\ plugins = {}
    /\ schedules' = TransformPlugin_build(setup_schedules(schedules))
    /\ plugins' = {"AnvilKitEcsPlugin", "TransformPlugin"}
    /\ last' = Op("add_plugins", NoEntity, NoEntity, {}, FALSE)
    /\ UNCHANGED <<world_vars, panicked, pure>>

\* The schedule App::update runs.
update_schedule == "Update"

\* App::update: self.world.run_schedule(AnvilKitSchedule::Update), which
\* panics when the World has no such schedule.
App_update ==
    /\ ~panicked
    /\ IF schedules[update_schedule].exists
       THEN \E order \in Orders(RootsWithChildren) :
               RunSchedule(schedules[update_schedule].systems, order, "update")
       ELSE /\ panicked' = TRUE
            /\ last' = Op("update", NoEntity, NoEntity,
                          {e \in alive : transform_changed[e]}, last.op = "update")
            /\ UNCHANGED <<global_transform, transform_changed, global_changed>>
    /\ UNCHANGED <<alive, transform, parent, has_children, children, schedules, plugins, despawned, pure>>

\* ---------------------------------------------------------- specifications
\* The World under the relation operations, Transform writes and passes.
Next ==
    \/ \E t \in HierarchyTransformValues : spawn_root(t)
    \/ \E t \in HierarchyTransformValues, p \in Entity : spawn_child(t, p)
    \/ \E e \in Entity, t \in HierarchyTransformValues : set_transform(e, t)
    \/ \E c \in Entity, p \in Entity : set_parent(c, p)
    \/ \E c \in Entity : remove_parent(c)
    \/ propagation_pass

Spec == Init /\ [][Next]_vars

\* The relation operations alone, between distinct entities, on entities
\* spawned linked on both sides.
NextRel ==
    \/ \E t \in HierarchyTransformValues : spawn_root(t)
    \/ \E t \in HierarchyTransformValues, p \in Entity : spawn_child(t, p)
    \/ \E c \in Entity : \E p \in Entity \ {c} : set_parent(c, p)
    \/ \E c \in Entity : remove_parent(c)

SpecRel == Init /\ [][NextRel]_vars

\* A forest linked on both sides: entities are only spawned linked, Transforms
\* written and passes run.
NextWF ==
    \/ \E t \in TransformValues : spawn_root(t)
    \/ \E t \in TransformValues, p \in Entity : spawn_child(t, p)
    \/ \E e \in Entity, t \in TransformValues : set_transform(e, t)
    \/ propagation_pass

SpecWF == Init /\ [][NextWF]_vars

\* The App: plugins are added, entities spawned and written, update() called.
NextApp ==
    \/ \E t \in TransformValues : spawn_root(t)
    \/ \E t \in TransformValues, p \in Entity : spawn_child(t, p)
    \/ \E e \in Entity, t \in TransformValues : set_transform(e, t)
    \/ add_TransformPlugin
    \/ add_AnvilKitEcsPlugin
    \/ App_update

SpecApp == Init /\ [][NextApp]_vars

\* Entities spawned, Children lists authored by application code, and passes.
NextCyc ==
    \/ \E t \in HierarchyTransformValues : spawn_root(t)
    \/ \E t \in HierarchyTransformValues, p \in Entity : spawn_child(t, p)
    \/ \E e \in Entity, list \in ChildrenValues : insert_Children(e, list)
    \/ propagation_pass

SpecCyc == Init /\ [][NextCyc]_vars

\* Entities spawned linked on both sides, written, despawned, and passes.
NextDespawn ==
    \/ \E t \in HierarchyTransformValues : spawn_root(t)
    \/ \E t \in HierarchyTransformValues, p \in Entity : spawn_child(t, p)
    \/ \E e \in Entity, t \in HierarchyTransformValues : set_transform(e, t)
    \/ \E e \in Entity : despawn(e)
    \/ propagation_pass

SpecDespawn == Init /\ [][NextDespawn]_vars

\* The module example: entities spawned with Transform, GlobalTransform and,
\* for a child, Parent; no Children component anywhere.
NextDoc ==
    \/ \E t \in DocTransformValues : spawn_root(t)
    \/ \E t \in DocTransformValues, p \in Entity : spawn_with_parent(t, p)
    \/ \E e \in Entity, t \in DocTransformValues : set_transform(e, t)
    \/ propagation_pass

SpecDoc == Init /\ [][NextDoc]_vars

\* The calls application code makes on one Children value.
NextChildren ==
    \/ \E v \in UNION {[1..n -> Entity] : n \in 0..MaxChildren} : Children_new(v)
    \/ \E e \in Entity : Children_push(e)
    \/ \E e \in Entity : Children_remove(e)
    \/ Children_clear

SpecChildren == InitChildren /\ [][NextChildren]_vars


\* Transform::inverse called on a Transform.
NextInverse == Transform_inverse

SpecInverse == InitInverse /\ [][NextInverse]_vars

\* A Transform of non-zero scale inverted and multiplied by its inverse.
NextRoundTrip ==
    \/ Transform_inverse
    \/ mul_by_inverse

SpecRoundTrip == InitRoundTrip /\ [][NextRoundTrip]_vars

\* Transform::looking_at called on an eye, a target and an up direction.
NextLookingAt == Transform_looking_at

SpecLookingAt == InitLookingAt /\ [][NextLookingAt]_vars

\* A Transform converted to its matrix and the matrix converted back.
NextMatrix ==
    \/ Transform_compute_matrix
    \/ Transform_from_matrix

SpecMatrix == InitMatrix /\ [][NextMatrix]_vars

\* Three Transforms multiplied in the two groupings.
NextAssoc ==
    \/ mul_left_first
    \/ mul_right_first

SpecAssoc == InitAssoc /\ [][NextAssoc]_vars

\* The relation operations on any pair of entities, and the ancestor query.
NextAncestors ==
    \/ \E t \in HierarchyTransformValues : spawn_root(t)
    \/ \E t \in HierarchyTransformValues, p \in Entity : spawn_child(t, p)
    \/ \E c \in Entity, p \in Entity : set_parent(c, p)
    \/ \E c \in Entity : remove_parent(c)
    \/ \E e \in Entity : call_get_ancestors(e)

SpecAncestors == Init /\ [][NextAncestors]_vars

\* A forest linked on both sides whose Children lists application code
\* reorders.
NextSiblings ==
    \/ \E t \in DocTransformValues : spawn_root(t)
    \/ \E t \in DocTransformValues, p \in Entity : spawn_child(t, p)
    \/ \E e \in Entity, t \in DocTransformValues : set_transform(e, t)
    \/ \E e \in Entity, list \in ChildrenValues : reorder_Children(e, list)
    \/ propagation_pass

SpecSiblings == Init /\ [][NextSiblings]_vars

\* A forest linked on both sides; pass 1 is also run on its own.
NextSync ==
    \/ \E t \in DocTransformValues : spawn_root(t)
    \/ \E t \in DocTransformValues, p \in Entity : spawn_child(t, p)
    \/ \E e \in Entity, t \in DocTransformValues : set_transform(e, t)
    \/ run_sync_simple_transforms
    \/ propagation_pass

SpecSync == Init /\ [][NextSync]_vars

\* Every operation that edits the relation: Children values authored
\* (Children::new(vec![c])) or pushed to by application code, set_parent
\* between distinct entities and remove_parent.
NextForest ==
    \/ \E t \in HierarchyTransformValues : spawn_root(t)
    \/ \E e \in Entity, c \in Entity : insert_Children(e, <<c>>)
    \/ \E p \in Entity, c \in Entity : push_Children(p, c)
    \/ \E c \in Entity : \E p \in Entity \ {c} : set_parent(c, p)
    \/ \E c \in Entity : remove_parent(c)

SpecForest == Init /\ [][NextForest]_vars

\* Entities spawned, Children lists authored one entry at a time, Parent
\* components removed, and passes: hierarchies change between passes without
\* any Transform being touched.
NextQuiet ==
    \/ \E t \in DocTransformValues : spawn_root(t)
    \/ \E t \in DocTransformValues, p \in Entity : spawn_child(t, p)
    \/ \E e \in Entity : \E c \in Entity \ {e} : insert_Children(e, <<c>>)
    \/ \E c \in Entity : remove_parent(c)
    \/ propagation_pass

SpecQuiet == Init /\ [][NextQuiet]_vars

\* Entities spawned, Children lists authored by application code, entities
\* despawned while still listed, and passes.
NextSkip ==
    \/ \E t \in HierarchyTransformValues : spawn_root(t)
    \/ \E t \in HierarchyTransformValues, p \in Entity : spawn_child(t, p)
    \/ \E e \in Entity, list \in ChildrenValues : insert_Children(e, list)
    \/ \E e \in Entity : despawn(e)
    \/ propagation_pass

SpecSkip == Init /\ [][NextSkip]_vars

\* ------------------------------------------------------------------ claims
\* Both sides of the relation agree: a child's Parent lists it, and a listed
\* entity holds that Parent.
WellFormed ==
    /\ \A c \in alive : parent[c] # NoEntity =>
          parent[c] \in has_children /\ contains(children[parent[c]], c)
    /\ \A p \in has_children : \A c \in Range(children[p]) : parent[c] = p

\* The entities reached from e by following Parent at most n times.
RECURSIVE AncestorsWithin(_, _)
AncestorsWithin(e, n) ==
    IF n = 0 \/ parent[e] = NoEntity THEN {}
    ELSE {parent[e]} \cup AncestorsWithin(parent[e], n - 1)

Ancestors(e) == AncestorsWithin(e, Cardinality(Entity))

Descendants(r) == {d \in alive : r \in Ancestors(d)}

\* e's GlobalTransform is its parent's composed with its own Transform, or
\* its own Transform promoted when it has no parent.
Consistent(e) ==
    IF parent[e] = NoEntity
    THEN global_transform[e] = from_transform(transform[e])
    ELSE global_transform[e] =
            mul_transform(global_transform[parent[e]], from_transform(transform[e]))

TranslationOnly(t) == t.rotation = 0 /\ t.scale = Vec3(1, 1, 1)

Vec3Add(a, b) == Vec3(a[1] + b[1], a[2] + b[2], a[3] + b[3])

\* The sum of the local translations on the path from the root to e.
RECURSIVE PathSum(_, _)
PathSum(e, n) ==
    IF n = 0 \/ parent[e] = NoEntity THEN transform[e].translation
    ELSE Vec3Add(PathSum(parent[e], n - 1), transform[e].translation)

\* C1: after a pass over a forest linked on both sides in which every
\* Transform was newly set, every non-root entity at every depth has
\* GlobalTransform = parent's GlobalTransform composed with its own Transform,
\* and where the whole path is translation-only the world translation is the
\* sum of the local translations from the root.
C1_PassComposesEveryNonRoot ==
    (last.op = "pass" /\ last.changed = alive /\ WellFormed) =>
        \A e \in alive :
            /\ parent[e] # NoEntity =>
                  global_transform[e] =
                     mul_transform(global_transform[parent[e]],
                                   from_transform(transform[e]))
            /\ (\A a \in Ancestors(e) \cup {e} : TranslationOnly(transform[a])) =>
                  translation(global_transform[e]) = PathSum(e, Cardinality(Entity))

\* Root (1,0,0), child (0,1,0) at world (1,1,0), and a grandchild below it,
\* after a pass that found every Transform new.
C1_Witness ==
    /\ last.op = "pass" /\ last.changed = alive /\ alive = Entity
    /\ \E r, c, d \in alive :
          /\ parent[r] = NoEntity /\ parent[c] = r /\ parent[d] = c
          /\ transform[r] = from_translation(Vec3(1, 0, 0))
          /\ transform[c] = from_translation(Vec3(0, 1, 0))
          /\ translation(global_transform[c]) = Vec3(1, 1, 0)
          /\ ~TranslationOnly(transform[d])
          /\ global_transform[d] # MAT4_IDENTITY

\* C2: when a pass begins with exactly one changed Transform, that of a root
\* R (every other entity has been through an earlier pass and was not written
\* since), the pass leaves R's GlobalTransform equal to its new Transform and
\* every descendant of R, at any depth, composed with it.
C2_RootMoveReachesDescendants ==
    \A r \in alive :
        (last.op = "pass" /\ last.changed = {r} /\ parent[r] = NoEntity /\ WellFormed) =>
            /\ global_transform[r] = from_transform(transform[r])
            /\ \A d \in Descendants(r) :
                  global_transform[d] =
                     mul_transform(global_transform[parent[d]],
                                   from_transform(transform[d]))

\* R moved to (2,0,0) alone; its child with local (0,1,0) is at world (2,1,0)
\* and there is a grandchild.
C2_Witness ==
    /\ last.op = "pass" /\ alive = Entity
    /\ \E r, c, d \in alive :
          /\ last.changed = {r}
          /\ parent[r] = NoEntity /\ parent[c] = r /\ parent[d] = c
          /\ transform[r] = from_translation(Vec3(2, 0, 0))
          /\ transform[c] = from_translation(Vec3(0, 1, 0))
          /\ translation(global_transform[c]) = Vec3(2, 1, 0)
          /\ translation(global_transform[d]) # translation(from_transform(transform[d]))

\* C3: at the end of every pass over a forest linked on both sides, every
\* entity's GlobalTransform is its parent's composed with its own Transform
\* (its own Transform promoted when it has no parent).
C3_EveryPassLeavesAllConsistent ==
    (last.op = "pass" /\ WellFormed) => \A e \in alive : Consistent(e)

\* C4: at the end of every pass, every entity without a Parent has
\* GlobalTransform = from_transform(its Transform).
C4_RootsPassThrough ==
    last.op = "pass" =>
        \A e \in alive :
            parent[e] = NoEntity => global_transform[e] = from_transform(transform[e])

\* C5: after set_parent(child, parent) the child holds Parent(parent) and the
\* parent holds a Children that contains the child.
C5_SetParentLinksBothSides ==
    last.op = "set_parent" =>
        /\ parent[last.e] = last.p
        /\ last.p \in has_children
        /\ contains(children[last.p], last.e)

\* C6: after remove_parent(child) the child holds no Parent and its former
\* parent's Children does not contain it.
C6_RemoveParentPrunesChildren ==
    (last.op = "remove_parent" /\ last.p # NoEntity) =>
        /\ parent[last.e] = NoEntity
        /\ ~contains(children[last.p], last.e)

\* C7: in every state reached through set_parent and remove_parent the two
\* relation components agree in both directions.
C7_RelationSidesAgree == WellFormed

\* C8: no entity is ever its own ancestor.
C8_Acyclic == \A e \in alive : e \notin Ancestors(e)

\* C9: with TransformPlugin added, when App::update returns every root whose
\* Transform was changed before the call has GlobalTransform =
\* from_transform(its Transform), and every entity of the forest is composed
\* from its parent.
C9_UpdateRunsPropagation ==
    (last.op = "update" /\ "TransformPlugin" \in plugins /\ ~panicked) =>
        /\ \A e \in last.changed :
              parent[e] = NoEntity => global_transform[e] = from_transform(transform[e])
        /\ last.changed = alive => \A e \in alive : Consistent(e)

\* C10: a pass that directly follows a pass leaves every GlobalTransform as
\* the first pass left it.
C10_SecondPassChangesNothing ==
    [][(last.op = "pass" /\ last'.op = "pass") => global_transform' = global_transform]_vars

\* A second pass in a row over a three-level chain that the first pass
\* composed.
C10_Witness ==
    /\ last.op = "pass" /\ last.repeat /\ alive = Entity
    /\ \E r, c, d \in alive :
          /\ parent[r] = NoEntity /\ parent[c] = r /\ parent[d] = c
          /\ c \in Range(children[r]) /\ d \in Range(children[c])
          /\ global_transform[d] # MAT4_IDENTITY

\* The entities reached from e by following Children lists at most n times.
RECURSIVE ListedWithin(_, _)
ListedWithin(e, n) ==
    IF n = 0 \/ e \notin has_children THEN {}
    ELSE Range(children[e]) \cup UNION {ListedWithin(c, n - 1) : c \in Range(children[e])}

\* The graph formed by the Children lists has a cycle.
ChildrenCyclic == \E e \in Entity : e \in ListedWithin(e, Cardinality(Entity))

\* C11: a pass over Children lists that form no cycle returns; the recursion
\* of propagate_recursive runs away only when the lists form a cycle.
C11_AcyclicPassReturns == panicked => ChildrenCyclic

\* A pass returned after recursing three levels down authored, acyclic lists:
\* root, child, grandchild, the grandchild holding a Children of its own.
C11_Witness ==
    /\ last.op = "pass" /\ ~panicked /\ ~ChildrenCyclic
    /\ \E r, c, d \in alive :
          /\ parent[r] = NoEntity /\ parent[c] = r /\ parent[d] = c
          /\ children[r] = <<c>> /\ children[c] = <<d>> /\ d \in has_children
          /\ global_transform[d] =
                mul_transform(global_transform[c], from_transform(transform[d]))
          /\ global_transform[d] # from_transform(transform[d])

\* A pass ran away: a child's Children list leads back to the child.
C11_CycleOverflows == panicked /\ ChildrenCyclic

\* C12: when an entity is despawned, every entity that held a Parent naming
\* it stays in the World and no longer holds a Parent.
C12_DespawnOrphansChildren ==
    [][last'.op = "despawn" =>
          \A c \in alive :
              parent[c] = last'.e => (c \in alive' /\ parent'[c] = NoEntity)]_vars

\* C13: after the propagation systems ran over newly spawned entities, a
\* child spawned with (Transform, GlobalTransform, Parent(p)) under a root p
\* spawned with (Transform, GlobalTransform), no Children authored, has the
\* global translation p's translation + its own (parent (10,0,0) and child
\* (5,0,0) give (15,0,0)).
C13_DocExampleChildComposed ==
    (last.op = "pass" /\ last.changed = alive) =>
        \A c \in alive :
            (parent[c] # NoEntity /\ parent[parent[c]] = NoEntity
             /\ parent[c] \notin has_children) =>
                translation(global_transform[c]) =
                    Vec3Add(transform[parent[c]].translation, transform[c].translation)

\* C14: push(e) on a Children that holds e leaves the list as it is, so a
\* second push of e in a row changes nothing; push(e) on one that does not
\* hold e appends e at the end and makes len one larger.
C14_PushOnceOnly ==
    [][last'.op = "Children::push" =>
          LET e == last'.e
              old == pure.list
              new == pure'.list
          IN /\ e \in Range(old) => new = old
             /\ last'.repeat => new = old
             /\ e \notin Range(old) =>
                   /\ Len(new) = Len(old) + 1
                   /\ new[Len(new)] = e
                   /\ SubSeq(new, 1, Len(old)) = old]_vars

\* 2 pushed, then 1 pushed twice in a row: the list is <<2, 1>>.
C14_Witness ==
    /\ last.op = "Children::push" /\ last.repeat /\ last.e = 1
    /\ ~pure.from_vec /\ pure.list = <<2, 1>>

\* The members of `order` that are in S, in the order of `order`.
InOrderOf(order, S) == SelectSeq(order, LAMBDA x : x \in S)

\* What C15 says of first(), last() and remove(e).
C15_FirstLastRemove ==
    /\ ~pure'.from_vec =>
          /\ Children_first(pure'.list) =
                IF pure'.inserted = <<>> THEN NoEntity ELSE Head(pure'.inserted)
          /\ Children_last(pure'.list) =
                IF pure'.inserted = <<>> THEN NoEntity
                ELSE pure'.inserted[Len(pure'.inserted)]
    /\ last'.op = "Children::remove" =>
          /\ ~contains(pure'.list, last'.e)
          /\ pure'.list = InOrderOf(pure.list, Range(pure.list) \ {last'.e})
          /\ last'.e \notin Range(pure.list) => pure'.list = pure.list

\* C15 as stated: after any sequence of push, remove and clear, iter() yields
\* the remaining entities in the order they were first pushed; first() and
\* last() return the earliest and latest remaining entity (None when empty);
\* remove(e) makes contains(e) false and leaves the membership and relative
\* order of the others unchanged (nothing changes when e is absent).
C15_OrderOfFirstPush ==
    [][/\ ~pure'.from_vec =>
             pure'.list = InOrderOf(pure'.first_pushed, Range(pure'.list))
       /\ C15_FirstLastRemove]_vars

\* C15 amended: iter() yields the remaining entities in the order of the
\* pushes that inserted them (an entity pushed again after it was removed or
\* cleared goes to the end); the rest as stated.
C15_OrderOfInsertion ==
    [][/\ ~pure'.from_vec => pure'.list = pure'.inserted
       /\ C15_FirstLastRemove]_vars

\* Three entities pushed, the middle one removed: the outer two remain in
\* their order, first() and last() are the outer two.
C15_Witness ==
    /\ last.op = "Children::remove" /\ last.e = 2 /\ ~pure.from_vec
    /\ pure.list = <<3, 1>> /\ pure.first_pushed = <<3, 2, 1>>
    /\ Children_first(pure.list) = 3 /\ Children_last(pure.list) = 1

\* A magnitude below machine epsilon.
BelowEpsilon(x) == x < EPSILON /\ x > 0 - EPSILON

\* C16: Transform::inverse returns an error exactly when at least one scale
\* component has magnitude below machine epsilon, and Ok with a Transform
\* otherwise; nothing panics.
C16_InverseErrIffScaleBelowEpsilon ==
    pure.op = "inverse" =>
        /\ pure.result.ok = ~(\E i \in 1..3 : BelowEpsilon(pure.self.scale[i]))
        /\ ~panicked

\* inverse() refused a Transform whose only small scale component is z, a
\* non-zero magnitude below epsilon.
C16_Witness ==
    /\ pure.op = "inverse"
    /\ pure.self.scale = Vec3(ONE, 2 * ONE, EPSILON \div 2)
    /\ ~pure.result.ok

\* The cross product of a and b is exactly zero (whole-number coordinates).
Parallel(a, b) ==
    LET w(v) == [i \in 1..3 |-> v[i] \div ONE]
    IN /\ w(a)[2] * w(b)[3] = w(b)[2] * w(a)[3]
       /\ w(a)[3] * w(b)[1] = w(b)[3] * w(a)[1]
       /\ w(a)[1] * w(b)[2] = w(b)[1] * w(a)[2]

\* C17: looking_at returns an error whenever target == eye and whenever
\* target - eye is parallel to up; when it succeeds the Transform has
\* translation == eye and scale == (1,1,1).
C17_LookingAtRejectsDegenerate ==
    pure.op = "looking_at" =>
        LET a == pure.self
        IN /\ a.target = a.eye => ~pure.result.ok
           /\ Parallel(Multiple(1, a.eye, a.target), a.up) => ~pure.result.ok
           /\ pure.result.ok => /\ pure.result.value.translation = a.eye
                                /\ pure.result.value.scale = VEC3_ONE

\* The tolerance of the comparisons "within tolerance": a few units of
\* machine epsilon, as 1e-5 is for f32.
Tolerance == 4 * EPSILON

Near(a, b) == is_finite(a) /\ is_finite(b) /\ a - b <= Tolerance /\ b - a <= Tolerance

Vec3_near(a, b) == \A i \in 1..3 : Near(a[i], b[i])

\* Two rotations are the same rotation (q or -q) within tolerance.
Quat_near(p, q) == \A i, j \in 1..3 : Near(p[i][j], q[i][j])

Transform_near(a, b) ==
    /\ Vec3_near(a.translation, b.translation)
    /\ Quat_near(a.rotation, b.rotation)
    /\ Vec3_near(a.scale, b.scale)

\* Transform::IDENTITY
IdentityTransform == Transform(VEC3_ZERO, QUAT_IDENTITY, VEC3_ONE)

\* C18: for every finite Transform t with non-zero scale (uniform or not, any
\* rotation, any translation), t.mul_transform(&t.inverse().unwrap()) is the
\* identity transform within tolerance.
C18_TimesInverseIsIdentity ==
    pure.op = "mul_inverse" => Transform_near(pure.product, IdentityTransform)

\* A uniform scale: the same factor on every axis.
Uniform(s) == s[1] = s[2] /\ s[2] = s[3]

\* The combination the round trip leaves out: a non-uniform scale together
\* with a rotation other than the identity.
NonUniformRotated(t) == ~Uniform(t.scale) /\ t.rotation # QUAT_IDENTITY

\* C19: for every finite Transform t other than a non-uniform scale with a
\* rotation, from_matrix(t.compute_matrix()) reproduces t: same translation,
\* rotation and scale within tolerance.
C19_MatrixRoundTrip ==
    (pure.op = "from_matrix" /\ ~NonUniformRotated(pure.self)) =>
        Transform_near(pure.product, pure.self)

\* C19 as amended: the same, for the Transforms whose scale has a non-zero x
\* component and positive y and z components.
C19_MatrixRoundTripPositive ==
    (/\ pure.op = "from_matrix"
     /\ ~NonUniformRotated(pure.self)
     /\ pure.self.scale[1] # 0
     /\ pure.self.scale[2] > 0
     /\ pure.self.scale[3] > 0) =>
        Transform_near(pure.product, pure.self)

\* A translated Transform with a quarter turn and uniform scale 2 came back
\* from its matrix.
C19_Witness ==
    /\ pure.op = "from_matrix"
    /\ pure.self = Transform(Whole(1, 2, 0), from_rotation_z(1), Whole(2, 2, 2))
    /\ pure.product = pure.self

UniformNonZero(s) == Uniform(s) /\ s[1] # 0

ParentChain(e, l) ==
    IF parent[e] = NoEntity THEN l = <<>>
    ELSE /\ Len(l) >= 1
         /\ l[1] = parent[e]
         /\ \A i \in 1..(Len(l) - 1) : l[i + 1] = parent[l[i]]
         /\ parent[l[Len(l)]] = NoEntity

\* C21: on an acyclic Parent relation get_ancestors(e) terminates and returns
\* exactly the chain of Parent references from e, direct parent first, root
\* last, without e; the empty list when e has no Parent.
C21_GetAncestorsIsParentChain ==
    (last.op = "get_ancestors" /\ \A x \in alive : x \notin Ancestors(x)) =>
        /\ pure.result.ok
        /\ ~panicked
        /\ ParentChain(last.e, pure.result.list)
        /\ ~contains(pure.result.list, last.e)

\* The query on the grandchild of a chain of three returned parent, then
\* root.
C21_Witness ==
    /\ last.op = "get_ancestors"
    /\ Len(pure.result.list) = 2
    /\ pure.result.list[1] = parent[last.e]
    /\ pure.result.list[2] = parent[parent[last.e]]
    /\ pure.result.list[2] # last.e

\* The entities whose GlobalTransform went into write i of the log: the
\* entity it was composed from and, through that entity's latest earlier
\* write, the entities that one was composed from.
RECURSIVE SourcesOf(_, _)
SourcesOf(log, i) ==
    IF log[i].from = NoEntity THEN {}
    ELSE LET earlier == {k \in 1..(i - 1) : log[k].e = log[i].from}
         IN {log[i].from} \cup
            (IF earlier = {} THEN {}
             ELSE SourcesOf(log, CHOOSE k \in earlier : \A o \in earlier : o <= k))

\* No write of the log changes an entity that an earlier write was composed
\* from.
FinalizedBeforeUse(log) ==
    \A i \in 1..Len(log) : \A j \in (i + 1)..Len(log) : log[j].e \notin SourcesOf(log, i)

\* C22: within one pass a parent's GlobalTransform is finalized before any
\* descendant's is computed: once a descendant has been computed from an
\* ancestor's value, no later write of the pass changes that ancestor.
C22_ParentFinalizedFirst ==
    [][last'.op = "pass" =>
          \A order \in Orders(RootsWithChildren) : FinalizedBeforeUse(WritesOfPass(order))]_vars

C24_PassWritesOnlyGlobalTransform ==
    [][last'.op = "pass" =>
          /\ transform' = transform
          /\ parent' = parent
          /\ children' = children
          /\ has_children' = has_children
          /\ alive' = alive
          /\ despawned' = despawned]_vars

\* A pass composed a child's GlobalTransform in a World where a Children
\* list still names a despawned entity.
C24_Witness ==
    /\ last.op = "pass"
    /\ \E c \in alive : /\ parent[c] \in alive
                        /\ global_transform[c] # MAT4_IDENTITY
                        /\ global_transform[c] = mul_transform(global_transform[parent[c]],
                                                               from_transform(transform[c]))
                        /\ \E d \in Range(children[parent[c]]) : d \in despawned

\* C25: sync_simple_transforms writes GlobalTransform = from_transform(Transform)
\* for exactly the entities without Parent whose Transform is marked changed
\* since it last ran; the GlobalTransform of every entity with a Parent and
\* of every root whose Transform is unchanged is left untouched (same value,
\* not marked changed).
C25_SyncWritesChangedRootsOnly ==
    [][last'.op = "sync" =>
          \A e \in Entity :
              IF e \in alive /\ parent[e] = NoEntity /\ transform_changed[e]
              THEN /\ global_transform'[e] = from_transform(transform[e])
                   /\ global_changed'[e]
              ELSE /\ global_transform'[e] = global_transform[e]
                   /\ global_changed'[e] = global_changed[e]]_vars

\* Pass 1 ran on its own in a World holding a root it wrote, a root whose
\* Transform was unchanged, and a child whose Transform was changed.
C25_Witness ==
    /\ last.op = "sync"
    /\ \E r \in last.changed : /\ parent[r] = NoEntity
                               /\ global_transform[r] = from_transform(transform[r])
                               /\ global_transform[r] # MAT4_IDENTITY
    /\ \E u \in alive \ last.changed : parent[u] = NoEntity
    /\ \E c \in last.changed : /\ parent[c] # NoEntity
                               /\ global_transform[c] # from_transform(transform[c])

\* The entities that list e in their Children.
ListedBy(e) == {p \in has_children : contains(children[p], e)}

\* C26: in every state reachable through the relation operations no entity is
\* listed in the Children of two different parents.
C26_NoSharedChild == \A e \in Entity : Cardinality(ListedBy(e)) <= 1

\* C27: a Children value is a set: however it was constructed (new, From<Vec>,
\* empty) and whatever was pushed, removed or cleared, it never lists an
\* entity twice and len() is the number of distinct entities it contains.
C27_ChildrenIsSet ==
    /\ \A i, j \in 1..Len(pure.list) : pure.list[i] = pure.list[j] => i = j
    /\ Len(pure.list) = Cardinality(Range(pure.list))

\* C28: set_parent(child, parent) adds a Children component to parent only
\* when parent has none and never discards entries: every entity listed in
\* parent's Children before the call is still listed after it.
C28_SetParentKeepsChildren ==
    [][last'.op = "set_parent" =>
          /\ \A x \in Range(children[last'.p]) : contains(children'[last'.p], x)
          /\ last'.p \in has_children => children'[last'.p] = children[last'.p]]_vars

\* No Transform and no GlobalTransform is changed since the systems last ran.
Quiet == \A e \in Entity : ~transform_changed[e] /\ ~global_changed[e]

\* C29: a pass that starts when no Transform and no GlobalTransform has been
\* modified or added since the previous pass writes no GlobalTransform and
\* marks none as changed.
C29_QuietPassWritesNothing ==
    [][(last'.op = "pass" /\ Quiet) =>
          /\ global_transform' = global_transform
          /\ \A order \in Orders(RootsWithChildren) : WritesOfPass(order) = <<>>
          /\ \A e \in Entity :
                ~sync_simple_transforms(
                     WorldView(global_transform, transform_changed, global_changed, TRUE)).gc[e]
          /\ \A e \in Entity : ~global_changed'[e]]_vars

\* A pass that started with nothing changed has returned, and left as they
\* were a root whose GlobalTransform is not its Transform and a listed child
\* whose GlobalTransform is not composed from the root listing it.
C29_Witness ==
    /\ last.op = "pass" /\ last.changed = {} /\ ~panicked
    /\ \E e \in alive : IsRoot(e) /\ global_transform[e] # from_transform(transform[e])
    /\ \E r \in RootsWithChildren : \E c \in Range(children[r]) :
          /\ InTransformQuery(c)
          /\ global_transform[c] #
                mul_transform(global_transform[r], from_transform(transform[c]))

\* The World as propagate_transforms finds it: after sync_simple_transforms.
SyncView ==
    sync_simple_transforms(
        WorldView(global_transform, transform_changed, global_changed, TRUE))

\* The entries of r's Children the transform_query does not yield: entities
\* without Parent and entities no longer in the World.
Skipped(r) == {x \in Range(children[r]) : ~InTransformQuery(x)}

\* The entities reached from e in at most n steps through Children entries
\* the transform_query yields.
RECURSIVE YieldedWithin(_, _)
YieldedWithin(e, n) ==
    IF n = 0 \/ e \notin has_children THEN {}
    ELSE LET ys == {c \in Range(children[e]) : InTransformQuery(c)}
         IN ys \cup UNION {YieldedWithin(c, n - 1) : c \in ys}

\* The Children lists form a cycle through entities the transform_query yields.
QueryCyclic == \E e \in Entity : e \in YieldedWithin(e, NumEntities)

C30_SiblingWritten ==
    /\ last.op = "pass" /\ ~panicked
    /\ \E r \in RootsWithChildren \cap last.changed :
          /\ Len(children[r]) = 2
          /\ children[r][1] \in despawned
          /\ LET s == children[r][2]
             IN /\ InTransformQuery(s) /\ ListedBy(s) = {r}
                /\ global_transform[s] # from_transform(transform[s])
                /\ global_transform[s] =
                      mul_transform(global_transform[r], from_transform(transform[s]))

====
